---- MODULE Spec2Model ----
(***************************************************************************)
(* The hermes promise settler of session/pingpong (src/unnamed/part_001,   *)
(* lines 249-806): the per-identity settlement state map, the event        *)
(* handlers that mutate it under the RWMutex, the settle queue and its     *)
(* dispatcher, and settle() with its waiter goroutine.                     *)
(*                                                                         *)
(* A promise is identified by its cumulative amount (0 is the zero-valued  *)
(* crypto.Promise).  A *big.Int field of the channel is <<>> when nil and  *)
(* <<n>> otherwise.  The threshold is the rational num/den; the thresholds *)
(* used are dyadic, so the float64 comparisons of needsSettling are exact  *)
(* on the small integers of the model.                                     *)
(***************************************************************************)
EXTENDS Integers, Sequences, FiniteSets, TLC

(* ------------------------------ bounds -------------------------------- *)

\* concurrent settle() calls the model tracks (caller + waiter each)
MaxSettles == 2
\* listenForSettlementRequests goroutines alive at once
MaxDispatchers == 1

\* events delivered and calls made from outside in one behaviour
MaxOps == 3

\* capacity of settleQueue
QueueCap == 5

Providers == {"p1"}
Beneficiaries == {"b1"}
PromiseAmounts == {20, 60, 80}
Channels == { [balance |-> <<100>>, settled |-> <<0>>],
              [balance |-> <<40>>,  settled |-> <<60>>] }
SettledEvents == { [txHash |-> "tx1", amount |-> 60, totalSettled |-> 60] }
Settles == 1..MaxSettles

NoBeneficiary == "none"
NotFound == [found |-> FALSE, amount |-> 0, rOk |-> TRUE]
LedgerAmounts == {60}
\* rOk: whether the stored R is valid hex
LedgerEntries ==
  {NotFound} \cup [found : {TRUE}, amount : LedgerAmounts, rOk : BOOLEAN]

(* ------------------------- settlementState ---------------------------- *)

ZeroChannel == [balance |-> <<>>, settled |-> <<>>]

\* the zero value of settlementState: what a read of a missing key yields
ZeroState ==
  [channel |-> ZeroChannel, lastPromise |-> 0,
   settleInProgress |-> FALSE, registered |-> FALSE]

\* the modulus of the machine word: uint64 scaled down, 256 standing for 2^64
Word == 256

\* big.Int.Uint64() of a possibly nil field: the low word of the value
Uint64(b) == IF b = <<>> THEN 0 ELSE b[1] % Word

safeSub(a, b) == IF a > b THEN a - b ELSE 0

lifetimeBalance(ss) == ss.lastPromise

\* the promise total taken for the unsettled earnings: the settled part stays in
unsettledBalanceNoSub(ss) == ss.lastPromise

unsettledBalance(ss) == safeSub(ss.lastPromise, Uint64(ss.channel.settled))

\* line 774: the sum of two uint64 wraps around
availableBalance(ss) ==
  (Uint64(ss.channel.balance) + Uint64(ss.channel.settled)) % Word

balance(ss) == safeSub(availableBalance(ss), ss.lastPromise)

\* x < threshold * y, threshold = th[1] / th[2]
LessThanScaled(x, th, y) == x * th[2] < th[1] * y

\* the remaining balance compared with <= instead of <
needsSettlingLax(ss, th) ==
  IF ~ss.registered THEN FALSE
  ELSE IF ss.settleInProgress THEN FALSE
  ELSE IF LessThanScaled(unsettledBalance(ss), th, availableBalance(ss)) THEN FALSE
  ELSE balance(ss) * th[2] <= th[1] * availableBalance(ss)

needsSettling(ss, th) ==
  IF ~ss.registered THEN FALSE
  ELSE IF ss.settleInProgress THEN FALSE
  ELSE IF LessThanScaled(unsettledBalance(ss), th, availableBalance(ss)) THEN FALSE
  ELSE IF LessThanScaled(balance(ss), th, availableBalance(ss)) THEN TRUE
  ELSE FALSE

\* the lifetime total reported in both fields
EarningsLifetimeOnly(ss) ==
  [lifetime |-> lifetimeBalance(ss), unsettled |-> lifetimeBalance(ss)]

Earnings(ss) ==
  [lifetime |-> lifetimeBalance(ss), unsettled |-> unsettledBalance(ss)]

(* ------------------------------ state --------------------------------- *)

VARIABLES
  currentState,   \* the map identity -> settlementState (its domain: the keys)
  lock,           \* holder of the write lock: "free", <<"h">>, <<"c", i>>, <<"w", i>>
  h,              \* the event handler that is inside its critical section
  st,             \* the settle() calls: caller and waiter positions and locals
  settleQueue,    \* the buffered channel of receivedPromise
  dispatchers,    \* running listenForSettlementRequests goroutines
  stopClosed,     \* close(aps.stop) has happened
  onceDone,       \* aps.once has run
  closeCount,     \* how often close(aps.stop) ran (saturates at 2)
  pending,        \* spawned publishChangeEvent goroutines that have not published
  loadPublished,  \* earnings events spawned by loadInitialState, per identity (saturates at 2)
  bus,            \* the earnings-changed event last published on the event bus, per identity
  threshold,      \* config.Threshold
  chain,          \* the provider channel on chain (collaborator)
  ledger,         \* the promise storage (collaborator)
  policyOut,      \* the last direct needsSettling evaluation: identity and result
  earningsOut,    \* the last GetEarnings call: identity and result
  ops             \* events delivered and calls made so far

vars == <<currentState, lock, h, st, settleQueue, dispatchers, stopClosed,
          onceDone, closeCount, pending, loadPublished, bus, threshold, chain,
          ledger, policyOut, earningsOut, ops>>

\* map read: v, ok := currentState[id]
Loaded(id) == id \in DOMAIN currentState
Lookup(id) == IF Loaded(id) THEN currentState[id] ELSE ZeroState
\* map write: currentState[id] = s
Put(id, s) ==
  [x \in DOMAIN currentState \cup {id} |-> IF x = id THEN s ELSE currentState[x]]

Free == <<"free">>
HLock == <<"h">>

\* no earnings-changed event
NoEvent ==
  [id |-> "none", previous |-> [lifetime |-> 0, unsettled |-> 0],
   current |-> [lifetime |-> 0, unsettled |-> 0]]

Idle ==
  [kind |-> "idle", pc |-> "idle", id |-> "none", status |-> "none",
   amount |-> 0, old |-> 0, s |-> ZeroState, channel |-> ZeroChannel,
   promise |-> 0, ev |-> NoEvent]

NoInfo == [txHash |-> "none", amount |-> 0, totalSettled |-> 0]

\* no SettlementHistoryEntry stored / no transactor call made
NoEntry ==
  [provider |-> "none", txHash |-> "none", promise |-> 0, amount |-> 0,
   totalSettled |-> 0, beneficiary |-> NoBeneficiary]

NoTx ==
  [method |-> "none", provider |-> "none", promise |-> 0,
   beneficiary |-> NoBeneficiary]

\* needsSettling has not been evaluated on its own
NoPolicy == [id |-> "none", needs |-> FALSE]

\* GetEarnings has not been called
NoEarnings == [id |-> "none", earnings |-> [lifetime |-> 0, unsettled |-> 0]]

FreeSlot ==
  [cpc |-> "free", wpc |-> "none", id |-> "none", promise |-> 0,
   beneficiary |-> NoBeneficiary, origin |-> "none", result |-> "none",
   errCh |-> "none", sub |-> "none", v |-> ZeroState,
   channel |-> ZeroChannel, rpromise |-> 0, info |-> NoInfo,
   tx |-> NoTx, she |-> NoEntry, settled0 |-> 0, ev |-> NoEvent]


Init ==
  /\ currentState = <<>>
  /\ lock = Free
  /\ h = Idle
  /\ st = [i \in Settles |-> FreeSlot]
  /\ settleQueue = <<>>
  /\ dispatchers = 0
  /\ stopClosed = FALSE
  /\ onceDone = FALSE
  /\ closeCount = 0
  /\ pending = {}
  /\ loadPublished = [p \in Providers |-> 0]
  /\ bus = [p \in Providers |-> NoEvent]
  /\ threshold = <<1, 2>>
  /\ chain \in [Providers -> Channels]
  /\ ledger \in [Providers -> LedgerEntries]
  /\ policyOut = NoPolicy
  /\ earningsOut = NoEarnings
  /\ ops = 0

(* --------------------------- collaborators ---------------------------- *)

\* the escrow contract moves on: the settled total never decreases
ChainChange(p) ==
  /\ \E c \in Channels :
       /\ c # chain[p]
       /\ Uint64(c.settled) >= Uint64(chain[p].settled)
       /\ chain' = [chain EXCEPT ![p] = c]
  /\ UNCHANGED <<currentState, lock, h, st, settleQueue, dispatchers, stopClosed,
                 onceDone, closeCount, pending, loadPublished, bus,
                 threshold, ledger, policyOut, earningsOut, ops>>

\* the session subsystem persists the first promise of the pair
LedgerChange(p) ==
  /\ ledger[p] = NotFound
  /\ \E a \in LedgerAmounts :
       ledger' = [ledger EXCEPT ![p] = [found |-> TRUE, amount |-> a, rOk |-> TRUE]]
  /\ UNCHANGED <<currentState, lock, h, st, settleQueue, dispatchers, stopClosed,
                 onceDone, closeCount, pending, loadPublished, bus,
                 threshold, chain, policyOut, earningsOut, ops>>

(* ------------------------- earnings publisher ------------------------- *)

ChangeEvent(id, before, after) ==
  [id |-> id, previous |-> Earnings(before), current |-> Earnings(after)]

\* go aps.publishChangeEvent(id, before, after): the goroutine exists from here on
Spawned(id, before, after) == pending \cup {ChangeEvent(id, before, after)}

\* the goroutine runs: eventBus.Publish
publishChangeEvent(e) ==
  /\ e \in pending
  /\ pending' = pending \ {e}
  /\ bus' = [bus EXCEPT ![e.id] = e]
  /\ UNCHANGED <<currentState, lock, h, st, settleQueue, dispatchers, stopClosed,
                 onceDone, closeCount, loadPublished, threshold,
                 chain, ledger, policyOut, earningsOut, ops>>

(* --------------------- handlers under the write lock ------------------ *)

\* what a handler leaves alone
HandlerFrame ==
  UNCHANGED <<st, dispatchers, stopClosed, onceDone, closeCount, threshold,
              chain, ledger, policyOut, earningsOut>>

\* an event is delivered or a call is made
Arrive == ops < MaxOps /\ ops' = ops + 1

\* deferred aps.lock.Unlock() of a handler
Return == h' = Idle /\ lock' = Free

Bump(n) == IF n < 2 THEN n + 1 ELSE n

\* loadInitialState lines 365-366: the write lock is taken until the return;
\* called by handleServiceEvent (status Running) and by the goroutines
\* handleNodeStart spawns per keystore account
loadInitialState(addr) ==
  /\ lock = Free
  /\ lock' = HLock
  /\ h' = [Idle EXCEPT !.kind = "load", !.pc = "check", !.id = addr]
  /\ UNCHANGED <<currentState, settleQueue, pending, loadPublished, bus>>
  /\ HandlerFrame
  /\ Arrive

\* the already-loaded test left out
LoadSkipsNever(addr) == FALSE

\* loadInitialState line 368: _, ok := aps.currentState[addr]
LoadSkips(addr) == Loaded(addr)

\* loadInitialState lines 368-383: skip a loaded identity, else look the
\* registration status up and go on to resyncState only when Registered
loadCheck ==
  /\ h.kind = "load" /\ h.pc = "check"
  /\ IF LoadSkips(h.id)
       THEN Return
       ELSE \E status \in {"error", "Unregistered", "Registered"} :
              IF status = "Registered"
                THEN h' = [h EXCEPT !.pc = "resync_fetch", !.status = status]
                     /\ UNCHANGED lock
                ELSE Return
  /\ UNCHANGED <<currentState, settleQueue, pending, loadPublished, bus>>
  /\ HandlerFrame
  /\ UNCHANGED ops

\* handleRegistrationEvent lines 475-476
handleRegistrationEvent(id, status) ==
  /\ lock = Free
  /\ lock' = HLock
  /\ h' = [Idle EXCEPT !.kind = "registration", !.pc = "check", !.id = id,
                       !.status = status]
  /\ UNCHANGED <<currentState, settleQueue, pending, loadPublished, bus>>
  /\ HandlerFrame
  /\ Arrive

\* handleRegistrationEvent lines 478-484
registrationCheck ==
  /\ h.kind = "registration" /\ h.pc = "check"
  /\ IF h.status # "Registered"
       THEN Return
       ELSE h' = [h EXCEPT !.pc = "resync_fetch"] /\ UNCHANGED lock
  /\ UNCHANGED <<currentState, settleQueue, pending, loadPublished, bus>>
  /\ HandlerFrame
  /\ UNCHANGED ops

\* resyncState lines 387-395: GetProviderChannel, then promiseStorage.Get;
\* ErrNotFound leaves the zero promise, any other error of either call returns
handlerResyncFetch ==
  /\ h.pc = "resync_fetch"
  /\ \E err \in BOOLEAN :
       IF err THEN Return
       ELSE h' = [h EXCEPT !.pc = "resync_publish", !.channel = chain[h.id],
                           !.promise = ledger[h.id].amount]
            /\ UNCHANGED lock
  /\ UNCHANGED <<currentState, settleQueue, pending, loadPublished, bus>>
  /\ HandlerFrame
  /\ UNCHANGED ops

\* the state resyncState composes (lines 397-401)
ResyncedState(channel, promise) ==
  [channel |-> channel, lastPromise |-> promise,
   settleInProgress |-> FALSE, registered |-> TRUE]

\* resyncState line 403: the map is read for the event's previous state
handlerResyncPublish ==
  /\ h.pc = "resync_publish"
  /\ pending' = Spawned(h.id, Lookup(h.id), ResyncedState(h.channel, h.promise))
  /\ loadPublished' =
       IF h.kind = "load"
         THEN [loadPublished EXCEPT ![h.id] = Bump(loadPublished[h.id])]
         ELSE loadPublished
  /\ h' = [h EXCEPT !.pc = "resync_write",
                      !.ev = ChangeEvent(h.id, Lookup(h.id),
                                         ResyncedState(h.channel, h.promise))]
  /\ UNCHANGED <<currentState, lock, settleQueue, bus>>
  /\ HandlerFrame
  /\ UNCHANGED ops

\* resyncState line 404, then the handler returns
handlerResyncWrite ==
  /\ h.pc = "resync_write"
  /\ currentState' = Put(h.id, ResyncedState(h.channel, h.promise))
  /\ Return
  /\ UNCHANGED <<settleQueue, pending, loadPublished, bus>>
  /\ HandlerFrame
  /\ UNCHANGED ops

\* handleHermesPromiseReceived lines 496-497
handleHermesPromiseReceived(id, amount) ==
  /\ lock = Free
  /\ lock' = HLock
  /\ h' = [Idle EXCEPT !.kind = "promise", !.pc = "read", !.id = id,
                       !.amount = amount]
  /\ UNCHANGED <<currentState, settleQueue, pending, loadPublished, bus>>
  /\ HandlerFrame
  /\ Arrive

\* the registered test left out
PromiseAcceptedUnregistered(id) == Loaded(id)

\* lines 499-507: the handler goes on only for an identity that is in the
\* map and whose state says registered
PromiseAccepted(id) ==
  IF ~Loaded(id) THEN FALSE
  ELSE IF ~Lookup(id).registered THEN FALSE
  ELSE TRUE

\* line 508: s.lastPromise = apep.Promise on the handler's copy of the state
PromiseUpdate(s, amount) == [s EXCEPT !.lastPromise = amount]

\* lines 499-508; old remembers the amount that s.lastPromise held
promiseRead ==
  /\ h.kind = "promise" /\ h.pc = "read"
  /\ IF ~PromiseAccepted(h.id)
       THEN Return
       ELSE h' = [h EXCEPT !.pc = "publish",
                           !.s = PromiseUpdate(Lookup(h.id), h.amount),
                           !.old = Lookup(h.id).lastPromise]
            /\ UNCHANGED lock
  /\ UNCHANGED <<currentState, settleQueue, pending, loadPublished, bus>>
  /\ HandlerFrame
  /\ UNCHANGED ops

\* line 510
promisePublish ==
  /\ h.kind = "promise" /\ h.pc = "publish"
  /\ pending' = Spawned(h.id, Lookup(h.id), h.s)
  /\ h' = [h EXCEPT !.pc = "write", !.ev = ChangeEvent(h.id, Lookup(h.id), h.s)]
  /\ UNCHANGED <<currentState, lock, settleQueue, loadPublished, bus>>
  /\ HandlerFrame
  /\ UNCHANGED ops

\* initiateSettling called for every promise
InitiatesAlways(s, th) == TRUE

\* line 514: whether the handler goes on to initiateSettling
Initiates(s, th) == needsSettling(s, th)

\* lines 511-516
promiseWrite ==
  /\ h.kind = "promise" /\ h.pc = "write"
  /\ currentState' = Put(h.id, h.s)
  /\ IF Initiates(h.s, threshold)
        THEN h' = [h EXCEPT !.pc = "initiate"] /\ UNCHANGED lock
        ELSE Return
  /\ UNCHANGED <<settleQueue, pending, loadPublished, bus>>
  /\ HandlerFrame
  /\ UNCHANGED ops

\* initiateSettling lines 520-535: the ledger read and the decoding of R
initiateSettling ==
  /\ h.kind = "promise" /\ h.pc = "initiate"
  /\ \E err \in BOOLEAN :
       IF err \/ ~ledger[h.id].found \/ ~ledger[h.id].rOk
         THEN Return
         ELSE h' = [h EXCEPT !.pc = "enqueue", !.promise = ledger[h.id].amount]
              /\ UNCHANGED lock
  /\ UNCHANGED <<currentState, settleQueue, pending, loadPublished, bus>>
  /\ HandlerFrame
  /\ UNCHANGED ops

\* initiateSettling line 537: the send blocks while the queue is full
enqueue ==
  /\ h.kind = "promise" /\ h.pc = "enqueue"
  /\ Len(settleQueue) < QueueCap
  /\ settleQueue' = Append(settleQueue, [provider |-> h.id, promise |-> h.promise])
  /\ Return
  /\ UNCHANGED <<currentState, pending, loadPublished, bus>>
  /\ HandlerFrame
  /\ UNCHANGED ops

(* ------------------------ node lifecycle, queue ----------------------- *)

\* handleNodeStart line 719: go aps.listenForSettlementRequests()
handleNodeStart ==
  /\ dispatchers < MaxDispatchers
  /\ dispatchers' = dispatchers + 1
  /\ UNCHANGED <<currentState, lock, h, st, settleQueue, stopClosed, onceDone,
                 closeCount, pending, loadPublished, bus, threshold, chain, ledger, policyOut, earningsOut>>
  /\ Arrive

\* the function is run by every call, as if the once were not consulted
handleNodeStopNoOnce ==
  /\ onceDone' = TRUE
  /\ stopClosed' = TRUE
  /\ closeCount' = Bump(closeCount)
  /\ UNCHANGED <<currentState, lock, h, st, settleQueue, dispatchers, pending,
                 loadPublished, bus, threshold, chain,
                 ledger, policyOut, earningsOut>>
  /\ Arrive

\* handleNodeStop: aps.once.Do(func() { close(aps.stop) })
handleNodeStop ==
  /\ IF onceDone
       THEN UNCHANGED <<onceDone, stopClosed, closeCount>>
       ELSE /\ onceDone' = TRUE
            /\ stopClosed' = TRUE
            /\ closeCount' = Bump(closeCount)
  /\ UNCHANGED <<currentState, lock, h, st, settleQueue, dispatchers, pending,
                 loadPublished, bus, threshold, chain,
                 ledger, policyOut, earningsOut>>
  /\ Arrive

\* listenForSettlementRequests, case <-aps.stop
listenStop ==
  /\ dispatchers > 0
  /\ stopClosed
  /\ dispatchers' = dispatchers - 1
  /\ UNCHANGED <<currentState, lock, h, st, settleQueue, stopClosed, onceDone,
                 closeCount, pending, loadPublished, bus, threshold, chain, ledger, policyOut, earningsOut, ops>>

(* ------------------------------ settle -------------------------------- *)

SettleFrame ==
  UNCHANGED <<h, dispatchers, stopClosed, onceDone, closeCount, loadPublished, bus,
              threshold, chain, ledger, policyOut, earningsOut>>

\* a call of settle(p, beneficiary) at its first statement; settled0 remembers
\* the channel.settled the map held for the provider when the call was made
Entered(id, promise, beneficiary, origin) ==
  [FreeSlot EXCEPT !.cpc = "check", !.id = id, !.promise = promise,
                   !.beneficiary = beneficiary, !.origin = origin,
                   !.settled0 = Uint64(Lookup(id).channel.settled)]

\* a call that returned `result` before reaching settle
Refused(id, origin, result) ==
  [FreeSlot EXCEPT !.cpc = "done", !.id = id, !.origin = origin, !.result = result]

\* the ErrNotFound test of lines 573-575 and 596-598 left out
LoadPromiseNoNotFound(id, beneficiary, origin, err) ==
  IF err THEN Refused(id, origin, "LedgerError")
  ELSE IF ledger[id].found /\ ~ledger[id].rOk THEN Refused(id, origin, "DecodeError")
  ELSE Entered(id, ledger[id].amount, beneficiary, origin)

\* lines 572-589 and 594-612: the ledger read and the decoding of R
LoadPromise(id, beneficiary, origin, err) ==
  IF err THEN Refused(id, origin, "LedgerError")
  ELSE IF ~ledger[id].found THEN Refused(id, origin, "NothingToSettle")
  ELSE IF ~ledger[id].rOk THEN Refused(id, origin, "DecodeError")
  ELSE Entered(id, ledger[id].amount, beneficiary, origin)

\* a new call takes the first unused slot
FirstFree(i) == st[i].cpc = "free" /\ \A j \in 1..(i - 1) : st[j].cpc # "free"

\* also reached through handleSettlementEvent
ForceSettle(i, providerID) ==
  /\ FirstFree(i)
  /\ \E err \in BOOLEAN :
       st' = [st EXCEPT ![i] = LoadPromise(providerID, NoBeneficiary, "force", err)]
  /\ UNCHANGED <<currentState, lock, settleQueue, pending>>
  /\ SettleFrame
  /\ Arrive

SettleWithBeneficiary(i, providerID, beneficiary) ==
  /\ FirstFree(i)
  /\ \E err \in BOOLEAN :
       st' = [st EXCEPT ![i] = LoadPromise(providerID, beneficiary, "beneficiary", err)]
  /\ UNCHANGED <<currentState, lock, settleQueue, pending>>
  /\ SettleFrame
  /\ Arrive

\* listenForSettlementRequests, case p := <-aps.settleQueue: go aps.settle(p, nil)
listenDispatch(i) ==
  /\ dispatchers > 0
  /\ settleQueue # <<>>
  /\ FirstFree(i)
  /\ st' = [st EXCEPT ![i] = Entered(Head(settleQueue).provider,
                                     Head(settleQueue).promise, NoBeneficiary, "queue")]
  /\ settleQueue' = Tail(settleQueue)
  /\ UNCHANGED <<currentState, lock, pending>>
  /\ SettleFrame
  /\ UNCHANGED ops

\* settle line 619: isSettling under the read lock
isSettling(i) ==
  /\ st[i].cpc = "check"
  /\ lock = Free
  /\ st' = [st EXCEPT ![i] =
              IF Lookup(st[i].id).settleInProgress
                THEN [@ EXCEPT !.cpc = "done", !.result = "AlreadyInProgress"]
                ELSE [@ EXCEPT !.cpc = "set"]]
  /\ UNCHANGED <<currentState, lock, settleQueue, pending>>
  /\ SettleFrame
  /\ UNCHANGED ops

\* setSettling lines 711-713: take the write lock, read the entry
settleLock(i) ==
  /\ st[i].cpc \in {"set", "unset"}
  /\ lock = Free
  /\ lock' = <<"c", i>>
  /\ st' = [st EXCEPT ![i].v = Lookup(st[i].id),
                      ![i].cpc = IF st[i].cpc = "set" THEN "set_w" ELSE "unset_w"]
  /\ UNCHANGED <<currentState, settleQueue, pending>>
  /\ SettleFrame
  /\ UNCHANGED ops

\* setSettling lines 714-715 for settle line 623, then lines 625-633:
\* SubscribeToPromiseSettledEvent; on success errCh is made and the waiter started
settleMark(i) ==
  /\ st[i].cpc = "set_w"
  /\ currentState' = Put(st[i].id, [st[i].v EXCEPT !.settleInProgress = TRUE])
  /\ lock' = Free
  /\ \E err \in BOOLEAN :
       st' = [st EXCEPT ![i] =
                IF err THEN [@ EXCEPT !.cpc = "unset", !.v = ZeroState]
                ELSE [@ EXCEPT !.cpc = "submit", !.wpc = "select", !.v = ZeroState,
                               !.errCh = "open", !.sub = "active"]]
  /\ UNCHANGED <<settleQueue, pending>>
  /\ SettleFrame
  /\ UNCHANGED ops

\* the flag written back as it was read
settleUnmarkKeepsFlag(i) ==
  /\ st[i].cpc = "unset_w"
  /\ currentState' = Put(st[i].id, st[i].v)
  /\ lock' = Free
  /\ st' = [st EXCEPT ![i].cpc = "done", ![i].result = "SubscribeError",
                      ![i].v = ZeroState]
  /\ UNCHANGED <<settleQueue, pending>>
  /\ SettleFrame
  /\ UNCHANGED ops

\* setSettling lines 714-715 for settle line 627, then return err
settleUnmark(i) ==
  /\ st[i].cpc = "unset_w"
  /\ currentState' = Put(st[i].id, [st[i].v EXCEPT !.settleInProgress = FALSE])
  /\ lock' = Free
  /\ st' = [st EXCEPT ![i].cpc = "done", ![i].result = "SubscribeError",
                      ![i].v = ZeroState]
  /\ UNCHANGED <<settleQueue, pending>>
  /\ SettleFrame
  /\ UNCHANGED ops

\* the beneficiary branch of lines 683-687 left out
settleFuncRebalance(s) ==
  [method |-> "SettleAndRebalance", provider |-> s.id, promise |-> s.promise,
   beneficiary |-> NoBeneficiary]

\* settle lines 680-687: which transactor method settleFunc calls
settleFunc(s) ==
  [method |-> IF s.beneficiary # NoBeneficiary THEN "SettleWithBeneficiary"
              ELSE "SettleAndRebalance",
   provider |-> s.id, promise |-> s.promise, beneficiary |-> s.beneficiary]

\* settle lines 689-694
settleSubmit(i) ==
  /\ st[i].cpc = "submit"
  /\ \E err \in BOOLEAN :
       st' = [st EXCEPT ![i] =
                IF err THEN [@ EXCEPT !.cpc = "done", !.result = "SubmitError",
                                      !.sub = "cancelled", !.tx = settleFunc(st[i])]
                ELSE [@ EXCEPT !.cpc = "wait", !.tx = settleFunc(st[i])]]
  /\ UNCHANGED <<currentState, lock, settleQueue, pending>>
  /\ SettleFrame
  /\ UNCHANGED ops

\* settle line 696 meeting line 675: the waiter hands over ErrSettleTimeout
settleReceiveTimeout(i) ==
  /\ st[i].cpc = "wait"
  /\ st[i].wpc = "send_timeout"
  /\ st' = [st EXCEPT ![i].cpc = "done", ![i].result = "SettleTimeout",
                      ![i].wpc = "clear", ![i].errCh = "closed"]
  /\ UNCHANGED <<currentState, lock, settleQueue, pending>>
  /\ SettleFrame
  /\ UNCHANGED ops

\* settle line 696 on the closed errCh: the zero value, nil
settleReceiveClosed(i) ==
  /\ st[i].cpc = "wait"
  /\ st[i].errCh = "closed"
  /\ st' = [st EXCEPT ![i].cpc = "done", ![i].result = "nil"]
  /\ UNCHANGED <<currentState, lock, settleQueue, pending>>
  /\ SettleFrame
  /\ UNCHANGED ops

(* ------------------------------ waiter -------------------------------- *)

\* A waiter that leaves its select runs its deferred calls in reverse order.
\* The first, close(errCh), is part of the step that leaves; then setSettling
\* (two steps under the write lock), then cancel().

\* case <-aps.stop
waiterStop(i) ==
  /\ st[i].wpc = "select"
  /\ stopClosed
  /\ st' = [st EXCEPT ![i].wpc = "clear", ![i].errCh = "closed"]
  /\ UNCHANGED <<currentState, lock, settleQueue, pending>>
  /\ SettleFrame
  /\ UNCHANGED ops

\* case info, more := <-sink; NoInfo stands for a closed sink or a nil event.
\* Any PromiseSettled event of the provider's channel may arrive while the
\* subscription is active; once cancel() has run the sink only closes.
waiterSink(i) ==
  /\ st[i].wpc = "select"
  /\ \E info \in SettledEvents \cup {NoInfo} :
       /\ info # NoInfo => st[i].sub = "active"
       /\ st' = [st EXCEPT ![i] =
                IF info = NoInfo THEN [@ EXCEPT !.wpc = "clear", !.errCh = "closed"]
                ELSE [@ EXCEPT !.wpc = "store", !.info = info]]
  /\ UNCHANGED <<currentState, lock, settleQueue, pending>>
  /\ SettleFrame
  /\ UNCHANGED ops

\* case <-time.After(MaxWaitForSettlement)
waiterTimeout(i) ==
  /\ st[i].wpc = "select"
  /\ st' = [st EXCEPT ![i].wpc = "send_timeout"]
  /\ UNCHANGED <<currentState, lock, settleQueue, pending>>
  /\ SettleFrame
  /\ UNCHANGED ops

\* settle lines 647-655
HistoryEntry(s) ==
  [provider |-> s.id, txHash |-> s.info.txHash, promise |-> s.promise,
   amount |-> s.info.amount, totalSettled |-> s.info.totalSettled,
   beneficiary |-> s.beneficiary]

\* a failed Store ends the waiter
waiterStoreFatal(i) ==
  /\ st[i].wpc = "store"
  /\ \E err \in BOOLEAN :
       st' = [st EXCEPT ![i] =
                IF err THEN [@ EXCEPT !.wpc = "clear", !.errCh = "closed"]
                ELSE [@ EXCEPT !.wpc = "resync_fetch", !.she = HistoryEntry(st[i])]]
  /\ UNCHANGED <<currentState, lock, settleQueue, pending>>
  /\ SettleFrame
  /\ UNCHANGED ops

\* settle lines 657-660: Store is called with the entry (she is the entry
\* handed to Store); err is its result, which is logged and not used
waiterStore(i) ==
  /\ st[i].wpc = "store"
  /\ \E err \in BOOLEAN :
       st' = [st EXCEPT ![i].wpc = "resync_fetch", ![i].she = HistoryEntry(st[i])]
  /\ UNCHANGED <<currentState, lock, settleQueue, pending>>
  /\ SettleFrame
  /\ UNCHANGED ops

\* settle line 662 -> resyncState lines 387-395, no lock held; an error is logged
waiterResyncFetch(i) ==
  /\ st[i].wpc = "resync_fetch"
  /\ \E err \in BOOLEAN :
       st' = [st EXCEPT ![i] =
                IF err THEN [@ EXCEPT !.wpc = "clear", !.errCh = "closed"]
                ELSE [@ EXCEPT !.wpc = "resync_publish", !.channel = chain[st[i].id],
                               !.rpromise = ledger[st[i].id].amount]]
  /\ UNCHANGED <<currentState, lock, settleQueue, pending>>
  /\ SettleFrame
  /\ UNCHANGED ops

\* resyncState line 403: the map read, outside any lock
waiterResyncPublish(i) ==
  /\ st[i].wpc = "resync_publish"
  /\ pending' = Spawned(st[i].id, Lookup(st[i].id),
                        ResyncedState(st[i].channel, st[i].rpromise))
  /\ st' = [st EXCEPT ![i].wpc = "resync_write",
                      ![i].ev = ChangeEvent(st[i].id, Lookup(st[i].id),
                                            ResyncedState(st[i].channel, st[i].rpromise))]
  /\ UNCHANGED <<currentState, lock, settleQueue>>
  /\ SettleFrame
  /\ UNCHANGED ops

\* the state written without the channel that was fetched
waiterResyncWriteZero(i) ==
  /\ st[i].wpc = "resync_write"
  /\ currentState' = Put(st[i].id, ResyncedState(ZeroChannel, st[i].rpromise))
  /\ st' = [st EXCEPT ![i].wpc = "clear", ![i].errCh = "closed",
                      ![i].channel = ZeroChannel, ![i].rpromise = 0,
                      ![i].ev = NoEvent]
  /\ UNCHANGED <<lock, settleQueue, pending>>
  /\ SettleFrame
  /\ UNCHANGED ops

\* resyncState line 404: the map write, outside any lock
waiterResyncWrite(i) ==
  /\ st[i].wpc = "resync_write"
  /\ currentState' = Put(st[i].id, ResyncedState(st[i].channel, st[i].rpromise))
  /\ st' = [st EXCEPT ![i].wpc = "clear", ![i].errCh = "closed",
                      ![i].channel = ZeroChannel, ![i].rpromise = 0,
                      ![i].ev = NoEvent]
  /\ UNCHANGED <<lock, settleQueue, pending>>
  /\ SettleFrame
  /\ UNCHANGED ops

\* defer aps.setSettling(p.provider, false): lines 711-713
waiterLock(i) ==
  /\ st[i].wpc = "clear"
  /\ lock = Free
  /\ lock' = <<"w", i>>
  /\ st' = [st EXCEPT ![i].wpc = "clear_w", ![i].v = Lookup(st[i].id)]
  /\ UNCHANGED <<currentState, settleQueue, pending>>
  /\ SettleFrame
  /\ UNCHANGED ops

\* lines 714-715, then defer cancel()
waiterClear(i) ==
  /\ st[i].wpc = "clear_w"
  /\ currentState' = Put(st[i].id, [st[i].v EXCEPT !.settleInProgress = FALSE])
  /\ lock' = Free
  /\ st' = [st EXCEPT ![i].wpc = "done", ![i].sub = "cancelled", ![i].v = ZeroState]
  /\ UNCHANGED <<settleQueue, pending>>
  /\ SettleFrame
  /\ UNCHANGED ops

\* the call has returned and its waiter is gone
Finished(i) == st[i].cpc = "done" /\ st[i].wpc \in {"none", "done"}

\* a finished call is forgotten and its slot reused
Forget(i) ==
  /\ Finished(i)
  /\ st' = [st EXCEPT ![i] = FreeSlot]
  /\ UNCHANGED <<currentState, lock, settleQueue, pending>>
  /\ SettleFrame
  /\ UNCHANGED ops

(* --------------------------- specification ---------------------------- *)

\* no finished call is waiting to be forgotten and no spawned
\* publishChangeEvent goroutine is waiting to publish
Quiet == (\A i \in Settles : ~Finished(i)) /\ pending = {}

\* A finished call leaves the books, and a spawned publishChangeEvent goroutine
\* publishes, before anything else moves: neither touches the settler's state.
Next ==
  \/ \E i \in Settles : Forget(i)
  \/ \E e \in pending : publishChangeEvent(e)
  \/ \E p \in Providers : ChainChange(p) /\ Quiet
  \/ \E p \in Providers : LedgerChange(p) /\ Quiet
  \/ \E p \in Providers : loadInitialState(p) /\ Quiet
  \/ loadCheck /\ Quiet
  \/ \E p \in Providers, s \in {"Registered", "Unregistered"} :
       handleRegistrationEvent(p, s) /\ Quiet
  \/ registrationCheck /\ Quiet
  \/ handlerResyncFetch /\ Quiet
  \/ handlerResyncPublish /\ Quiet
  \/ handlerResyncWrite /\ Quiet
  \/ \E p \in Providers, a \in PromiseAmounts :
       handleHermesPromiseReceived(p, a) /\ Quiet
  \/ promiseRead /\ Quiet
  \/ promisePublish /\ Quiet
  \/ promiseWrite /\ Quiet
  \/ initiateSettling /\ Quiet
  \/ enqueue /\ Quiet
  \/ handleNodeStart /\ Quiet
  \/ handleNodeStop /\ Quiet
  \/ listenStop /\ Quiet
  \/ \E i \in Settles, p \in Providers : ForceSettle(i, p) /\ Quiet
  \/ \E i \in Settles, p \in Providers, b \in Beneficiaries :
       SettleWithBeneficiary(i, p, b) /\ Quiet
  \/ \E i \in Settles : listenDispatch(i) /\ Quiet
  \/ \E i \in Settles : isSettling(i) /\ Quiet
  \/ \E i \in Settles : settleLock(i) /\ Quiet
  \/ \E i \in Settles : settleMark(i) /\ Quiet
  \/ \E i \in Settles : settleUnmark(i) /\ Quiet
  \/ \E i \in Settles : settleSubmit(i) /\ Quiet
  \/ \E i \in Settles : settleReceiveTimeout(i) /\ Quiet
  \/ \E i \in Settles : settleReceiveClosed(i) /\ Quiet
  \/ \E i \in Settles : waiterStop(i) /\ Quiet
  \/ \E i \in Settles : waiterSink(i) /\ Quiet
  \/ \E i \in Settles : waiterTimeout(i) /\ Quiet
  \/ \E i \in Settles : waiterStore(i) /\ Quiet
  \/ \E i \in Settles : waiterResyncFetch(i) /\ Quiet
  \/ \E i \in Settles : waiterResyncPublish(i) /\ Quiet
  \/ \E i \in Settles : waiterResyncWrite(i) /\ Quiet
  \/ \E i \in Settles : waiterLock(i) /\ Quiet
  \/ \E i \in Settles : waiterClear(i) /\ Quiet

Spec == Init /\ [][Next]_vars

(* ------------------- needsSettling on its own ------------------------- *)

Thresholds == {<<0, 1>>, <<1, 4>>, <<1, 2>>, <<3, 4>>, <<1, 1>>}

\* settlement states over nil, zero and positive channel fields
PolicyStates ==
  [channel : [balance : {<<>>, <<0>>, <<40>>, <<100>>},
              settled : {<<>>, <<0>>, <<60>>}],
   lastPromise : {0, 20, 50, 60, 80, 100, 120},
   settleInProgress : BOOLEAN,
   registered : BOOLEAN]

PolicyInit ==
  /\ currentState \in [Providers -> PolicyStates] \cup {<<>>}
  /\ threshold \in Thresholds
  /\ lock = Free
  /\ h = Idle
  /\ st = [i \in Settles |-> FreeSlot]
  /\ settleQueue = <<>>
  /\ dispatchers = 0
  /\ stopClosed = FALSE
  /\ onceDone = FALSE
  /\ closeCount = 0
  /\ pending = {}
  /\ loadPublished = [p \in Providers |-> 0]
  /\ bus = [p \in Providers |-> NoEvent]
  /\ chain = [p \in Providers |-> [balance |-> <<100>>, settled |-> <<0>>]]
  /\ ledger = [p \in Providers |-> NotFound]
  /\ policyOut = NoPolicy
  /\ earningsOut = NoEarnings
  /\ ops = 0

\* s.needsSettling(aps.config.Threshold) on the stored state of id
policyEval(id) ==
  /\ policyOut' = [id |-> id, needs |-> needsSettling(Lookup(id), threshold)]
  /\ UNCHANGED <<currentState, lock, h, st, settleQueue, dispatchers, stopClosed,
                 onceDone, closeCount, pending, loadPublished, bus, threshold, chain,
                 ledger, earningsOut, ops>>

\* GetEarnings lines 560-565: the read lock, then Earnings() of the map's value
GetEarnings(id) ==
  /\ lock = Free
  /\ earningsOut' = [id |-> id, earnings |-> Earnings(Lookup(id))]
  /\ UNCHANGED <<currentState, lock, h, st, settleQueue, dispatchers, stopClosed,
                 onceDone, closeCount, pending, loadPublished, bus, threshold, chain,
                 ledger, policyOut, ops>>

PolicyNext ==
  \/ \E p \in Providers : policyEval(p)
  \/ \E p \in Providers : GetEarnings(p)

PolicySpec == PolicyInit /\ [][PolicyNext]_vars

(* ------------- promise events before the node has started ------------ *)

\* the state loadInitialState leaves for a registered provider whose channel
\* holds 100 with nothing settled and whose stored promise is 60
LoadedState ==
  ResyncedState([balance |-> <<100>>, settled |-> <<0>>], 60)

\* loadInitialState has run for the provider and k promise events of 60 have
\* each left a work item in settleQueue; no dispatcher runs, as
\* listenForSettlementRequests is started by the node Started event only
PromiseInit ==
  /\ currentState = [p \in Providers |-> LoadedState]
  /\ \E k \in 0..QueueCap :
       /\ settleQueue = [j \in 1..k |-> [provider |-> "p1", promise |-> 60]]
       /\ bus = [p \in Providers |->
                   ChangeEvent(p, IF k = 0 THEN ZeroState ELSE LoadedState,
                               LoadedState)]
  /\ lock = Free
  /\ h = Idle
  /\ st = [i \in Settles |-> FreeSlot]
  /\ dispatchers = 0
  /\ stopClosed = FALSE
  /\ onceDone = FALSE
  /\ closeCount = 0
  /\ pending = {}
  /\ loadPublished = [p \in Providers |-> 1]
  /\ threshold = <<1, 2>>
  /\ chain = [p \in Providers |-> [balance |-> <<100>>, settled |-> <<0>>]]
  /\ ledger = [p \in Providers |-> [found |-> TRUE, amount |-> 60, rOk |-> TRUE]]
  /\ policyOut = NoPolicy
  /\ earningsOut = NoEarnings
  /\ ops = 0

\* the promise handler and the publishChangeEvent goroutines it spawns, which
\* the scheduler runs in any order
PromiseNext ==
  \/ \E p \in Providers, a \in PromiseAmounts : handleHermesPromiseReceived(p, a)
  \/ promiseRead
  \/ promisePublish
  \/ promiseWrite
  \/ initiateSettling
  \/ enqueue
  \/ \E e \in pending : publishChangeEvent(e)

PromiseSpec == PromiseInit /\ [][PromiseNext]_vars

(* ------------- the balances over channel values of any size ---------- *)

\* settlement states whose channel fields reach and pass the word: the chain
\* values are 256-bit integers
WideStates ==
  [channel : [balance : {<<>>, <<100>>, <<200>>, <<300>>},
              settled : {<<>>, <<0>>, <<100>>, <<256>>}],
   lastPromise : {0, 60, 120},
   settleInProgress : BOOLEAN,
   registered : BOOLEAN]

WideInit ==
  /\ currentState \in [Providers -> WideStates]
  /\ threshold \in {<<1, 4>>, <<1, 2>>}
  /\ lock = Free
  /\ h = Idle
  /\ st = [i \in Settles |-> FreeSlot]
  /\ settleQueue = <<>>
  /\ dispatchers = 0
  /\ stopClosed = FALSE
  /\ onceDone = FALSE
  /\ closeCount = 0
  /\ pending = {}
  /\ loadPublished = [p \in Providers |-> 0]
  /\ bus = [p \in Providers |-> NoEvent]
  /\ chain = [p \in Providers |-> [balance |-> <<100>>, settled |-> <<0>>]]
  /\ ledger = [p \in Providers |-> NotFound]
  /\ policyOut = NoPolicy
  /\ earningsOut = NoEarnings
  /\ ops = 0

WideSpec == WideInit /\ [][PolicyNext]_vars

(* ------------------------------ claims -------------------------------- *)

\* call i has set settleInProgress and its last step (the waiter's deferred
\* setSettling(false), or the caller's after a failed subscribe) is still to come
Outstanding(i) ==
  \/ st[i].cpc \in {"unset", "unset_w"}
  \/ st[i].wpc \in {"select", "send_timeout", "store", "resync_fetch",
                    "resync_publish", "resync_write", "clear", "clear_w"}

\* C1: for every provider at most one settle call is outstanding at any
\* instant, whichever of ForceSettle, SettleWithBeneficiary and the queue
\* dispatcher started it; of two racing calls one is refused.
C1_AtMostOneOutstanding ==
  \A p \in Providers :
    Cardinality({i \in Settles : st[i].id = p /\ Outstanding(i)}) <= 1

\* C2: when ForceSettle returns ErrSettleTimeout, settleInProgress of the
\* provider is false at the moment of the return (so that an immediate new
\* ForceSettle is not refused by isSettling).
C2_TimeoutReturnsWithFlagCleared ==
  [][\A i \in Settles :
       (st[i].origin = "force" /\ st[i].cpc = "wait" /\ st'[i].cpc = "done"
          /\ st'[i].result = "SettleTimeout")
       => /\ st[i].id \in DOMAIN currentState'
          /\ ~currentState'[st[i].id].settleInProgress]_vars

\* C3: a promise event never lowers the stored lastPromise amount: what the
\* handler stores is at least the amount it found stored.
C3_PromiseNeverLowered ==
  [][promiseWrite => currentState'[h.id].lastPromise >= h.old]_vars

\* C4: whoever holds the write lock as a handler (loadInitialState, the
\* registration handler, the promise handler) is not at a chain RPC, a
\* promise-storage read or the send on settleQueue.
C4_NoCallUnderLock ==
  lock = HLock =>
    h.pc \notin {"resync_fetch", "initiate", "enqueue"}

\* C5: needsSettling is false for a state that is not registered or has
\* settleInProgress set; otherwise, with T = threshold * availableBalance, it is
\* false when unsettledBalance < T and else true exactly when balance < T.
C5_NeedsSettlingDecision ==
  policyOut.id \in Providers =>
    LET ss == Lookup(policyOut.id)
        BelowT(x) == x * threshold[2] < threshold[1] * availableBalance(ss)
    IN  policyOut.needs =
          IF ~ss.registered \/ ss.settleInProgress THEN FALSE
          ELSE IF BelowT(unsettledBalance(ss)) THEN FALSE
          ELSE BelowT(balance(ss))

C5_ReturnsTrue ==
  /\ policyOut.id \in Providers
  /\ policyOut.needs
  /\ currentState[policyOut.id].registered
  /\ ~currentState[policyOut.id].settleInProgress

\* the promise handler has its updated copy of a registered state with
\* channel {balance 40, settled 60}, no settlement in progress, threshold 0.5
S2Case ==
  /\ h.kind = "promise" /\ h.pc = "write"
  /\ threshold = <<1, 2>>
  /\ h.s.registered /\ ~h.s.settleInProgress
  /\ h.s.channel = [balance |-> <<40>>, settled |-> <<60>>]

\* C6 as stated: in the S2 case a promise of 80 gives needsSettling false, and
\* a promise of 60 arriving after it gives unsettled balance 60, balance 40
\* and needsSettling true.
C6_S2AsStated ==
  S2Case =>
    /\ h.amount = 80 => ~needsSettling(h.s, threshold)
    /\ (h.amount = 60 /\ h.old = 80) =>
         /\ unsettledBalance(h.s) = 60
         /\ balance(h.s) = 40
         /\ needsSettling(h.s, threshold)

\* C6 amended: in the S2 case a promise of 80 gives unsettled balance 20,
\* balance 20 and needsSettling false; a promise of 60 gives unsettled
\* balance 0, balance 40 and needsSettling false; for neither does the handler
\* go on to initiateSettling, so nothing is enqueued.
C6_S2NothingToSettle ==
  /\ S2Case =>
       /\ h.amount = 80 =>
            /\ unsettledBalance(h.s) = 20
            /\ balance(h.s) = 20
            /\ ~needsSettling(h.s, threshold)
       /\ h.amount = 60 =>
            /\ unsettledBalance(h.s) = 0
            /\ balance(h.s) = 40
            /\ ~needsSettling(h.s, threshold)
  /\ ~ /\ h.kind = "promise" /\ h.pc \in {"initiate", "enqueue"}
       /\ threshold = <<1, 2>>
       /\ h.s.channel = [balance |-> <<40>>, settled |-> <<60>>]
       /\ h.amount \in {60, 80}

C6_SixtyAfterEighty == S2Case /\ h.amount = 60 /\ h.old = 80

UnregisteredPromise ==
  /\ h.kind = "promise" /\ h.pc = "read"
  /\ Loaded(h.id)
  /\ ~Lookup(h.id).registered

C9_LoadIdempotent ==
  /\ [](\A p \in Providers : loadPublished[p] <= 1)
  /\ [](h.kind = "load" /\ h.pc \in {"resync_fetch", "resync_publish", "resync_write"}
          => h.status = "Registered" /\ ~Loaded(h.id))
  /\ [][(loadCheck /\ Loaded(h.id)) =>
          /\ currentState' = currentState
          /\ pending' = pending
          /\ loadPublished' = loadPublished
          /\ h' = Idle]_vars

C9_SecondLoad ==
  /\ h.kind = "load" /\ h.pc = "check"
  /\ Loaded(h.id)
  /\ loadPublished[h.id] = 1

\* C10: a call made through SettleWithBeneficiary(p, B) submits with
\* transactor.SettleWithBeneficiary and beneficiary B, and the history entry
\* it stores carries B; a call made through ForceSettle or the queue submits
\* with SettleAndRebalance and stores an entry without beneficiary.
C10_BeneficiaryRouting ==
  \A i \in Settles :
    /\ st[i].tx # NoTx =>
         IF st[i].origin = "beneficiary"
           THEN /\ st[i].tx.method = "SettleWithBeneficiary"
                /\ st[i].tx.beneficiary = st[i].beneficiary
                /\ st[i].beneficiary \in Beneficiaries
           ELSE /\ st[i].tx.method = "SettleAndRebalance"
                /\ st[i].origin \in {"force", "queue"}
    /\ st[i].she # NoEntry =>
         IF st[i].origin = "beneficiary"
           THEN /\ st[i].she.beneficiary = st[i].beneficiary
                /\ st[i].beneficiary \in Beneficiaries
           ELSE st[i].she.beneficiary = NoBeneficiary

C10_BeneficiarySettleStored ==
  \E i \in Settles :
    /\ st[i].origin = "beneficiary"
    /\ st[i].tx.method = "SettleWithBeneficiary"
    /\ st[i].she # NoEntry

\* C11: with subscription and submission both successful, settle returns nil
\* only when its waiter received a confirmation event (stop, a closed sink
\* and a nil event are not reported as success).
C11_NilOnlyOnConfirmation ==
  \A i \in Settles :
    (st[i].cpc = "done" /\ st[i].result = "nil") => st[i].info # NoInfo

\* C12: ForceSettle and SettleWithBeneficiary on a storage without a promise
\* for the provider return at once, with ErrNothingToSettle unless the read
\* itself failed; the map is not touched, and a call that returned
\* ErrNothingToSettle has no subscription, no waiter, no transactor call and
\* no history entry.
C12_NothingToSettle ==
  /\ [](\A i \in Settles :
          st[i].result = "NothingToSettle" =>
            /\ st[i].cpc = "done" /\ st[i].wpc = "none"
            /\ st[i].sub = "none" /\ st[i].errCh = "none"
            /\ st[i].tx = NoTx /\ st[i].she = NoEntry
            /\ ~ledger[st[i].id].found)
  /\ [][\A i \in Settles :
          (/\ st[i].cpc = "free" /\ st'[i].cpc # "free"
           /\ st'[i].origin \in {"force", "beneficiary"}
           /\ ~ledger[st'[i].id].found)
          => /\ st'[i].cpc = "done"
             /\ st'[i].result \in {"NothingToSettle", "LedgerError"}
             /\ currentState' = currentState]_vars

C12_ReturnedNothingToSettle ==
  \E i \in Settles :
    /\ st[i].cpc = "done" /\ st[i].result = "NothingToSettle"
    /\ st[i].origin = "beneficiary"

\* C13: when ForceSettle returns ErrSettleTimeout, the provider's
\* settleInProgress is false, the call has stored no history entry and run no
\* resync, and the channel.settled in the map is the one held when the call
\* was made.
C13_TimeoutLeavesStateUnchanged ==
  [][\A i \in Settles :
       (st[i].origin = "force" /\ st[i].cpc = "wait" /\ st'[i].cpc = "done"
          /\ st'[i].result = "SettleTimeout")
       => /\ st[i].id \in DOMAIN currentState'
          /\ ~currentState'[st[i].id].settleInProgress
          /\ Uint64(currentState'[st[i].id].channel.settled) = st[i].settled0
          /\ st'[i].she = NoEntry
          /\ st'[i].info = NoInfo]_vars

\* C14: a history entry exists only for a confirmation event the waiter
\* received and carries the event's txHash, amount and totalSettled with the
\* call's promise; none is written for a call whose subscription or
\* submission failed.
C14_HistoryOnlyOnConfirmedSettle ==
  \A i \in Settles :
    st[i].she # NoEntry =>
      /\ st[i].info # NoInfo
      /\ st[i].she.txHash = st[i].info.txHash
      /\ st[i].she.amount = st[i].info.amount
      /\ st[i].she.totalSettled = st[i].info.totalSettled
      /\ st[i].she.promise = st[i].promise
      /\ st[i].result \notin {"SubscribeError", "SubmitError"}

\* max(0, a - b)
Monus(a, b) == IF a - b > 0 THEN a - b ELSE 0

\* a channel field, 0 when absent
FieldOrZero(f) == IF Len(f) = 0 THEN 0 ELSE f[1]

\* C15: GetEarnings leaves the map as it is and returns lifetime =
\* lastPromise amount and unsettled = max(0, lastPromise - settled) of the
\* identity's state, zeros for an identity without state; balance is
\* max(0, balance + settled - lastPromise); absent channel fields count as 0
\* and nothing is negative.
C15_EarningsSnapshot ==
  /\ [](earningsOut.id \in Providers =>
          LET ss == Lookup(earningsOut.id)
              settled == FieldOrZero(ss.channel.settled)
              funds == FieldOrZero(ss.channel.balance) + settled
          IN  /\ earningsOut.earnings.lifetime = ss.lastPromise
              /\ earningsOut.earnings.unsettled = Monus(ss.lastPromise, settled)
              /\ earningsOut.earnings.unsettled >= 0
              /\ balance(ss) = Monus(funds, ss.lastPromise)
              /\ balance(ss) >= 0
              /\ ~Loaded(earningsOut.id) =>
                   earningsOut.earnings = [lifetime |-> 0, unsettled |-> 0])
  /\ [][\A p \in Providers : GetEarnings(p) => currentState' = currentState]_vars

C15_SaturatedEarnings ==
  /\ earningsOut.id \in Providers
  /\ Loaded(earningsOut.id)
  /\ Lookup(earningsOut.id).lastPromise = 20
  /\ Lookup(earningsOut.id).channel.settled = <<60>>
  /\ earningsOut.earnings = [lifetime |-> 20, unsettled |-> 0]

\* C16: the resync that follows a confirmation stores a channel.settled that
\* is at least the channel.settled the map held when the settle call was made
\* (the settled total on chain never decreases).
C16_SettledNeverLowerAfterSettle ==
  [][\A i \in Settles :
       (waiterResyncWrite(i) /\ st[i].she # NoEntry) =>
         Uint64(currentState'[st[i].id].channel.settled) >= st[i].settled0]_vars

C16_ResyncAfterConfirmation ==
  \E i \in Settles :
    /\ st[i].wpc = "resync_write"
    /\ st[i].she # NoEntry
    /\ st[i].settled0 = 60
    /\ st[i].channel.settled = <<60>>

\* the waiter of call i is in its select or in the branch it took, before
\* its deferred calls
WaiterRunning(i) ==
  st[i].wpc \in {"select", "send_timeout", "store", "resync_fetch",
                 "resync_publish", "resync_write"}

\* C17: while the waiter of a settle call is running, settleInProgress of its
\* provider is true: no resync, promise event or other call's cleanup clears it.
C17_FlagHeldWhileWaiterRuns ==
  \A i \in Settles :
    WaiterRunning(i) =>
      /\ Loaded(st[i].id)
      /\ Lookup(st[i].id).settleInProgress

\* C18: a waiter is never stuck: while it is at the send of ErrSettleTimeout
\* on errCh its caller has not returned, so the send is received and the
\* waiter goes on to clear the flag, cancel the subscription and terminate.
C18_TimeoutSendIsReceived ==
  \A i \in Settles :
    st[i].wpc = "send_timeout" => st[i].cpc \in {"submit", "wait"}

\* C19: when the subscription fails, settle clears settleInProgress and
\* returns the subscription error; such a call has no waiter, no errCh, no
\* subscription to cancel, no transactor call and no history entry.
C19_SubscribeFailureClearsFlag ==
  /\ [](\A i \in Settles :
          (st[i].cpc \in {"unset", "unset_w"} \/ st[i].result = "SubscribeError") =>
            /\ st[i].wpc = "none" /\ st[i].errCh = "none" /\ st[i].sub = "none"
            /\ st[i].tx = NoTx /\ st[i].she = NoEntry)
  /\ [][\A i \in Settles :
          settleUnmark(i) =>
            /\ ~currentState'[st[i].id].settleInProgress
            /\ st'[i].cpc = "done"
            /\ st'[i].result = "SubscribeError"]_vars

C19_ReturnedSubscribeError ==
  \E i \in Settles :
    /\ st[i].cpc = "done" /\ st[i].result = "SubscribeError"
    /\ Loaded(st[i].id)
    /\ ~Lookup(st[i].id).settleInProgress

\* C20: a call whose transactor submission failed has returned the error with
\* its subscription cancelled, and neither has stored a history entry nor is
\* about to store one or to resync.
C20_SubmitFailureEndsSettle ==
  \A i \in Settles :
    st[i].result = "SubmitError" =>
      /\ st[i].cpc = "done"
      /\ st[i].sub = "cancelled"
      /\ st[i].she = NoEntry
      /\ st[i].wpc \notin {"store", "resync_fetch", "resync_publish", "resync_write"}

\* work accepted for provider p and not finished: items in settleQueue plus
\* dispatched settle calls whose caller or waiter is still going
QueueWork(p) ==
  Cardinality({k \in 1..Len(settleQueue) : settleQueue[k].provider = p})
    + Cardinality({i \in Settles : /\ st[i].id = p
                                   /\ st[i].origin = "queue"
                                   /\ st[i].cpc # "free"
                                   /\ ~Finished(i)})

\* C21: while a work item of a provider is queued or being settled, no promise
\* event adds another one: at most one is outstanding per provider.
C21_OneWorkItemPerProvider ==
  \A p \in Providers : QueueWork(p) <= 1

\* C24: the state map changes only in steps of whoever holds the write lock.
C24_MutationsUnderLock ==
  [][currentState' # currentState => lock # Free]_vars

\* C29: every entry of the state map has registered = true (entries are made
\* by resyncState only).
C29_EntriesAreRegistered ==
  \A p \in DOMAIN currentState : currentState[p].registered

\* C22: once a waiter has received the confirmation, settleInProgress stays
\* true and settle has not returned until the waiter has called resyncState.
C22_ResyncBeforeClearAndReturn ==
  \A i \in Settles :
    st[i].wpc = "store" =>
      /\ Lookup(st[i].id).settleInProgress
      /\ st[i].cpc # "done"

\* C23: after a confirmation, a failed history write still leads to the
\* resync, a failed resync only closes errCh, the caller that waits on errCh
\* returns nil, and the waiter's deferred setSettling writes the flag false.
C23_FailuresAfterConfirmationNotFatal ==
  /\ [][\A i \in Settles :
          st[i].wpc = "store" /\ st'[i].wpc # "store" =>
            /\ st'[i].wpc = "resync_fetch"
            /\ st'[i].errCh = "open"]_vars
  /\ [][\A i \in Settles :
          st[i].wpc = "resync_fetch" /\ st'[i].wpc = "clear" =>
            st'[i].errCh = "closed"]_vars
  /\ [][\A i \in Settles :
          st[i].info # NoInfo /\ st[i].cpc = "wait" /\ st'[i].cpc = "done" =>
            st'[i].result = "nil"]_vars
  /\ [][\A i \in Settles :
          st[i].wpc = "clear_w" /\ st'[i].wpc = "done" =>
            ~currentState'[st[i].id].settleInProgress]_vars

\* Store was called after a confirmation, the resync was reached, the caller
\* got nil and the waiter is in its deferred calls
C23_ConfirmedReturnedNil ==
  \E i \in Settles :
    /\ st[i].info # NoInfo /\ st[i].she # NoEntry
    /\ st[i].wpc \in {"clear", "clear_w"}
    /\ st[i].cpc = "done" /\ st[i].result = "nil"

\* C27: close(aps.stop) runs at most once, whatever the number of Stopped
\* events; the channel is closed exactly when the once has run.
C27_StopClosedOnce ==
  /\ closeCount <= 1
  /\ stopClosed <=> closeCount = 1
  /\ onceDone <=> stopClosed

\* a Stopped event has closed the stop channel
C27_StopClosed ==
  stopClosed /\ onceDone /\ closeCount = 1

\* C28: after node stop no waiter is left that can never return: none sits
\* at the send on errCh with its caller gone.
C28_StopReleasesWaiters ==
  stopClosed =>
    \A i \in Settles : ~(st[i].wpc = "send_timeout" /\ st[i].cpc = "done")

\* C25: the event spawned for an overwrite of a provider's state, by a
\* promise event or by resyncState, carries the earnings of the state the
\* write replaces as previous and those of the state it writes as current.
C25_EventMatchesOverwrite ==
  [][/\ h.pc \in {"write", "resync_write"} /\ h'.pc # h.pc =>
          /\ h.ev.previous = Earnings(Lookup(h.id))
          /\ h.ev.current = Earnings(currentState'[h.id])
     /\ \A i \in Settles :
          st[i].wpc = "resync_write" /\ st'[i].wpc # "resync_write" =>
            /\ st[i].ev.previous = Earnings(Lookup(st[i].id))
            /\ st[i].ev.current = Earnings(currentState'[st[i].id])]_vars

\* C26: every event published for an identity has as previous the current
\* earnings of the event published before it for that identity.
C26_EventsChain ==
  [][\A p \in Providers :
       bus'[p] # bus[p] => bus'[p].previous = bus[p].current]_vars

\* C30: a handler at the send on settleQueue can proceed: there is room in the
\* queue or a dispatcher is running that will make room.
C30_EnqueueCanProceed ==
  (h.pc = "enqueue" /\ lock = HLock) =>
    (Len(settleQueue) < QueueCap \/ dispatchers > 0)

\* C31: a resync started by a registration event or by a settlement
\* confirmation leaves lastPromise at least as high as it was and leaves
\* settleInProgress as it was.
C31_ResyncKeepsPromiseAndFlag ==
  [][/\ (h.kind = "registration" /\ h.pc = "resync_write" /\ h'.pc # h.pc) =>
          /\ currentState'[h.id].lastPromise >= Lookup(h.id).lastPromise
          /\ currentState'[h.id].settleInProgress = Lookup(h.id).settleInProgress
     /\ \A i \in Settles :
          (st[i].wpc = "resync_write" /\ st'[i].wpc # "resync_write") =>
            /\ currentState'[st[i].id].lastPromise >= Lookup(st[i].id).lastPromise
            /\ currentState'[st[i].id].settleInProgress =
                 Lookup(st[i].id).settleInProgress]_vars

\* C32: availableBalance is the sum of channel.balance and channel.settled as
\* numbers, whatever their size, and needsSettling decides on that sum.
C32_AvailableBalanceIsSum ==
  policyOut.id \in Providers =>
    LET ss == Lookup(policyOut.id)
        funds == FieldOrZero(ss.channel.balance) + FieldOrZero(ss.channel.settled)
        BelowT(x) == x * threshold[2] < threshold[1] * funds
    IN  /\ availableBalance(ss) = funds
        /\ balance(ss) = Monus(funds, ss.lastPromise)
        /\ policyOut.needs =
             IF ~ss.registered \/ ss.settleInProgress THEN FALSE
             ELSE IF BelowT(Monus(ss.lastPromise, FieldOrZero(ss.channel.settled)))
               THEN FALSE
             ELSE BelowT(Monus(funds, ss.lastPromise))

====
